---- MODULE Spec2Model ----
(***************************************************************************)
(* The saints network page (src/index.js): the asynchronous data load,     *)
(* the d3 data joins that create the circles, labels and lines, the        *)
(* per-tick position clamp, the drag handlers, the hover handlers and the  *)
(* filter callbacks.  The d3 force simulation and d3-drag are the          *)
(* environment: a simulation step moves every unpinned node to some point  *)
(* and a pinned node to its pin; d3-drag runs one gesture per pointer.     *)
(* Coordinates are whole pixels.  An optional value (a node's fx, an       *)
(* attribute not yet set) is the empty tuple when null/unset and <<v>>     *)
(* when set.  An inline opacity is the string of its value, "" when the    *)
(* style was never set.                                                    *)
(* src/index.js holds the script twice; the model follows the first copy   *)
(* (lines 1-323).  The second copy lacks the link hover handlers and uses  *)
(* 0.6 where the first uses 0.7 for a shown line.                          *)
(***************************************************************************)
EXTENDS Integers, Sequences, FiniteSets, TLC

VARIABLES
    phase,          \* position of init(): "start", "fetching", "parsing", "rendered", "error"
    response,       \* what the fetch of data/saints.json delivered: its status and parsed body
    saintsData,     \* the global saintsData: {} until the parsed document is assigned
    network,        \* the children of the #network container, in order
    assigned,       \* which of the globals svg, tooltip, simulation, link, node, label are assigned
    node,           \* the circle selection: one element record per joined datum
    link,           \* the line selection
    label,          \* the text selection
    tooltip,        \* the #tooltip element: inline opacity and content
    hover,          \* the element under the mouse: <<>>, <<"node", i>> or <<"link", j>>
    currentFilter,  \* the global currentFilter
    activeButtons,  \* the buttons carrying class "active"
    gestures,       \* d3-drag's active gestures: node index -> number of gestures on that node
    alphaTarget,    \* the simulation's alphaTarget, in tenths
    simulating,     \* d3.forceSimulation(nodes) has run: its timer steps the nodes
    tickListener    \* simulation.on("tick", updatePositions) has run

vars == <<phase, response, saintsData, network, assigned, node, link, label, tooltip, hover,
          currentFilter, activeButtons, gestures, alphaTarget, simulating,
          tickListener>>

\* ---------------------------------------------------------------- constants

width == 1200
height == 700

\* Pointers (the mouse, touches) that can be down at once: d3-drag runs one
\* gesture per pointer.
MaxPointers == 2

Null == <<>>
Some(v) == <<v>>

MathMax(a, b) == IF a >= b THEN a ELSE b
MathMin(a, b) == IF a <= b THEN a ELSE b

\* colorMap's keys: the categories of a node.
colorMap == [apostle |-> "#ff6b6b", doctor |-> "#4ecdc4", founder |-> "#95e1d3",
             martyr |-> "#ffd93d", mystic |-> "#a8e6cf"]

\* The error paragraph init() writes into the container.
ErrorMessage == "Error loading saints data. Please check that all files are present."

\* ---------------------------------------------------------------- the data file

Peter == [id |-> "peter", name |-> "St. Peter", type |-> "apostle", size |-> 30]
Paul == [id |-> "paul", name |-> "St. Paul", type |-> "apostle", size |-> 30]
Augustine == [id |-> "augustine", name |-> "St. Augustine", type |-> "doctor", size |-> 20]
\* A record without a display name: setupVisualization throws at the labels.
Nameless == [id |-> "stephen", type |-> "martyr", size |-> 20]

PaulAugustine == [source |-> "paul", target |-> "augustine", type |-> "influence"]
PeterPaul == [source |-> "peter", target |-> "paul", type |-> "contemporary"]

\* Documents response.json() can resolve to.
WellFormedDocs ==
    { [nodes |-> <<>>, links |-> <<>>],
      [nodes |-> <<Peter>>, links |-> <<>>],
      [nodes |-> <<Paul, Augustine>>, links |-> <<PaulAugustine>>] }

MalformedDocs ==
    { [links |-> <<>>],                                   \* no nodes array
      [nodes |-> <<Peter>>],                              \* no links array
      [nodes |-> <<Peter>>, links |-> <<PeterPaul>>],     \* a link to a missing node
      [nodes |-> <<Peter, Nameless>>, links |-> <<>>] }   \* a node without a name

Docs == WellFormedDocs \cup MalformedDocs

\* The initial value of saintsData: the empty object.
EmptyObject == [k \in {} |-> <<>>]

\* ---------------------------------------------------------------- the environment

\* Points the force simulation can move an unpinned node to: left of and above
\* the viewport, inside it, right of and below it.
SimPoints == { <<-9, 8>>, <<600, 350>>, <<1300, 800>> }

\* Pointer positions (event.x, event.y) a drag event can report.
DragPoints == { <<-40, 900>>, <<400, 300>> }

\* Arguments the filter buttons pass to filterByType.
FilterArgs == { "apostle", "martyr" }

\* d3.forceSimulation's initial placement of node i (1-based here): a
\* phyllotaxis spiral around the origin, radius 10*sqrt(i - 0.5), rounded.
InitialPoint(i) ==
    CASE i = 1 -> <<7, 0>>
      [] i = 2 -> <<-9, 8>>
      [] i = 3 -> <<1, -16>>
      [] OTHER -> <<11, 15>>

\* ---------------------------------------------------------------- init / setupVisualization

Init ==
    /\ phase = "start"
    /\ response = [status |-> "none", body |-> EmptyObject]
    /\ saintsData = EmptyObject
    /\ network = <<>>
    /\ assigned = {}
    /\ node = <<>>
    /\ link = <<>>
    /\ label = <<>>
    /\ tooltip = [opacity |-> "", html |-> <<>>]
    /\ hover = <<>>
    /\ currentFilter = "all"
    /\ activeButtons = {}
    /\ gestures = <<>>
    /\ alphaTarget = 0
    /\ simulating = FALSE
    /\ tickListener = FALSE

\* The catch block adding the paragraph to what the container holds.
CatchErrorAppend(children) == Append(children, ErrorMessage)

\* The catch block of init(): innerHTML replaces every child of the container.
CatchError(children) == <<ErrorMessage>>

\* d3.forceSimulation(nodes): initializeNodes gives every node a position.
InitializeNodes(nodes) ==
    [i \in DOMAIN nodes |->
        [id |-> nodes[i].id, type |-> nodes[i].type, size |-> nodes[i].size,
         name |-> IF "name" \in DOMAIN nodes[i] THEN nodes[i].name ELSE "undefined",
         x |-> InitialPoint(i)[1], y |-> InitialPoint(i)[2],
         fx |-> Null, fy |-> Null]]

\* forceLink's id lookup: the index of the node with this id, 0 when there is none.
FindNode(nodes, id) ==
    IF \E i \in DOMAIN nodes : nodes[i].id = id
    THEN CHOOSE i \in DOMAIN nodes : nodes[i].id = id
    ELSE 0

\* forceLink.initialize: every link's source and target become node references.
ResolveLinks(nodes, links) ==
    [j \in DOMAIN links |->
        [source |-> FindNode(nodes, links[j].source),
         target |-> FindNode(nodes, links[j].target),
         type |-> links[j].type]]

LinkStrokeWidth(type) == IF type = "mentor" THEN 3 ELSE IF type = "order" THEN 2 ELSE 1

\* selectAll("line").data(links).join("line"): one line per link.
JoinLines(links) ==
    [j \in DOMAIN links |->
        [d |-> j, strokeWidth |-> LinkStrokeWidth(links[j].type), stroke |-> "",
         opacity |-> "", x1 |-> Null, y1 |-> Null, x2 |-> Null, y2 |-> Null]]

\* The circle join losing the first datum.
JoinCirclesSkipFirst(nodes) ==
    [k \in 1..(Len(nodes) - 1) |->
        [d |-> k + 1, r |-> nodes[k + 1].size, fill |-> colorMap[nodes[k + 1].type],
         opacity |-> "", cx |-> Null, cy |-> Null]]

\* selectAll("circle").data(nodes).join("circle"): one circle per node.
JoinCircles(nodes) ==
    [i \in DOMAIN nodes |->
        [d |-> i, r |-> nodes[i].size, fill |-> colorMap[nodes[i].type],
         opacity |-> "", cx |-> Null, cy |-> Null]]

\* selectAll("text").data(nodes).join("text"): one label per node.
JoinLabels(nodes) ==
    [i \in DOMAIN nodes |->
        [d |-> i, dy |-> nodes[i].size + 15, opacity |-> "", x |-> Null, y |-> Null]]

\* DOMContentLoaded: init() starts and suspends on the fetch.
InitStart ==
    /\ phase = "start"
    /\ phase' = "fetching"
    /\ response' = [response EXCEPT !.status = "pending"]
    /\ UNCHANGED <<saintsData, network, assigned, node, link, label, tooltip, hover,
                   currentFilter, activeButtons, gestures, alphaTarget, simulating,
                   tickListener>>

\* The fetch resolves; init() suspends on response.json().
FetchResolved ==
    /\ phase = "fetching"
    /\ phase' = "parsing"
    /\ response' = [response EXCEPT !.status = "resolved"]
    /\ UNCHANGED <<saintsData, network, assigned, node, link, label, tooltip, hover,
                   currentFilter, activeButtons, gestures, alphaTarget, simulating,
                   tickListener>>

\* The fetch rejects: the catch block runs.
FetchRejected ==
    /\ phase = "fetching"
    /\ phase' = "error"
    /\ response' = [response EXCEPT !.status = "rejected"]
    /\ network' = CatchError(network)
    /\ UNCHANGED <<saintsData, assigned, node, link, label, tooltip, hover,
                   currentFilter, activeButtons, gestures, alphaTarget, simulating,
                   tickListener>>

\* The body is not JSON: response.json() rejects and the catch block runs.
ParseRejected ==
    /\ phase = "parsing"
    /\ phase' = "error"
    /\ response' = [response EXCEPT !.status = "unparsable"]
    /\ network' = CatchError(network)
    /\ UNCHANGED <<saintsData, assigned, node, link, label, tooltip, hover,
                   currentFilter, activeButtons, gestures, alphaTarget, simulating,
                   tickListener>>

\* How far setupVisualization gets on this document before it throws:
\* "length" (line 29, before the call), "forceLink", "text", or "done".
SetupReach(doc) ==
    IF ~({"nodes", "links"} \subseteq DOMAIN doc) THEN "length"
    ELSE IF \E j \in DOMAIN doc.links :
                \/ FindNode(doc.nodes, doc.links[j].source) = 0
                \/ FindNode(doc.nodes, doc.links[j].target) = 0
         THEN "forceLink"
    ELSE IF \E i \in DOMAIN doc.nodes : "name" \notin DOMAIN doc.nodes[i] THEN "text"
    ELSE "done"

\* response.json() resolves to doc: the rest of init() runs to its end.
Parsed(doc) ==
    /\ phase = "parsing"
    /\ response' = [status |-> "parsed", body |-> doc]
    /\ LET reach == SetupReach(doc)
           past(stages) == reach \in stages
           nodes == InitializeNodes(doc.nodes)
       IN
       /\ phase' = IF reach = "done" THEN "rendered" ELSE "error"
       /\ saintsData' =
            IF past({"length"}) THEN doc
            ELSE IF past({"forceLink"}) THEN [nodes |-> nodes, links |-> doc.links]
            ELSE [nodes |-> nodes, links |-> ResolveLinks(doc.nodes, doc.links)]
       /\ network' =
            CASE reach = "length" -> CatchError(network)
              [] reach = "done" -> Append(network, "svg")
              [] OTHER -> CatchError(Append(network, "svg"))
       /\ assigned' =
            CASE reach = "length" -> assigned
              [] reach = "forceLink" -> assigned \cup {"svg", "tooltip"}
              [] reach = "text" -> assigned \cup {"svg", "tooltip", "simulation", "link", "node"}
              [] OTHER -> assigned \cup {"svg", "tooltip", "simulation", "link", "node", "label"}
       /\ simulating' = ~past({"length"})
       /\ link' = IF past({"text", "done"}) THEN JoinLines(doc.links) ELSE link
       /\ node' = IF past({"text", "done"}) THEN JoinCircles(doc.nodes) ELSE node
       /\ label' = IF past({"done"}) THEN JoinLabels(doc.nodes) ELSE label
       /\ tickListener' = past({"done"})
       /\ gestures' = IF past({"text", "done"}) THEN [i \in DOMAIN doc.nodes |-> 0]
                      ELSE gestures
    /\ UNCHANGED <<tooltip, hover, currentFilter, activeButtons, alphaTarget>>

\* ---------------------------------------------------------------- simulation tick

\* One step of the d3 simulation: an unpinned node moves to some point, a
\* pinned node is put on its pin (fx and fy each on their own).
SimMove(nodes, pts) ==
    [i \in DOMAIN nodes |->
        [nodes[i] EXCEPT !.x = IF nodes[i].fx = Null THEN pts[i][1] ELSE nodes[i].fx[1],
                         !.y = IF nodes[i].fy = Null THEN pts[i][2] ELSE nodes[i].fy[1]]]

\* The clamp without the node's radius: the centre is kept inside, not the disc.
ClampNoRadius(size, limit, v) == MathMax(0, MathMin(limit, v))

\* The clamp with the collision force's padding of 5 added to the radius.
ClampPadded(size, limit, v) == MathMax(size + 5, MathMin(limit - (size + 5), v))

\* Math.max(d.size, Math.min(limit - d.size, v))
Clamp(size, limit, v) == MathMax(size, MathMin(limit - size, v))

\* The forEach of updatePositions.
ClampNodes(nodes) ==
    [i \in DOMAIN nodes |->
        [nodes[i] EXCEPT !.x = Clamp(nodes[i].size, width, nodes[i].x),
                         !.y = Clamp(nodes[i].size, height, nodes[i].y)]]

\* link.attr("x1", d => d.source.x) ... .attr("y2", d => d.target.y)
PositionLines(selection, nodes, links) ==
    [j \in DOMAIN selection |->
        [selection[j] EXCEPT !.x1 = Some(nodes[links[selection[j].d].source].x),
                             !.y1 = Some(nodes[links[selection[j].d].source].y),
                             !.x2 = Some(nodes[links[selection[j].d].target].x),
                             !.y2 = Some(nodes[links[selection[j].d].target].y)]]

\* node.attr("cx", d => d.x).attr("cy", d => d.y)
PositionCircles(selection, nodes) ==
    [k \in DOMAIN selection |->
        [selection[k] EXCEPT !.cx = Some(nodes[selection[k].d].x),
                             !.cy = Some(nodes[selection[k].d].y)]]

\* label.attr("x", d => d.x).attr("y", d => d.y)
PositionLabels(selection, nodes) ==
    [k \in DOMAIN selection |->
        [selection[k] EXCEPT !.x = Some(nodes[selection[k].d].x),
                             !.y = Some(nodes[selection[k].d].y)]]

\* The timer's step: the nodes move, then the "tick" listener, updatePositions,
\* is called before anything else runs.
Tick ==
    /\ simulating
    /\ \E pts \in [DOMAIN saintsData.nodes -> SimPoints] :
       \E nodes \in { IF tickListener THEN ClampNodes(SimMove(saintsData.nodes, pts))
                      ELSE SimMove(saintsData.nodes, pts) } :
          /\ saintsData' = [saintsData EXCEPT !.nodes = nodes]
          /\ link' = IF tickListener THEN PositionLines(link, nodes, saintsData.links)
                     ELSE link
          /\ node' = IF tickListener THEN PositionCircles(node, nodes) ELSE node
          /\ label' = IF tickListener THEN PositionLabels(label, nodes) ELSE label
    /\ UNCHANGED <<phase, response, network, assigned, tooltip, hover, currentFilter,
                   activeButtons, gestures, alphaTarget, simulating, tickListener>>

\* ---------------------------------------------------------------- drag

RECURSIVE Sum(_)
Sum(counts) == IF counts = <<>> THEN 0 ELSE Head(counts) + Sum(Tail(counts))

\* d3-drag's count of active gestures.
ActiveGestures == Sum(gestures)

\* The circles can receive pointer events while they are in the document.
Interactive == phase = "rendered"

PinAtStart(d) == [d EXCEPT !.fx = Some(d.x), !.fy = Some(d.y)]

\* A pointer goes down on circle i; event.active does not count the new gesture.
dragstarted(i) ==
    /\ Interactive
    /\ i \in DOMAIN node
    /\ ActiveGestures < MaxPointers
    /\ alphaTarget' = IF ActiveGestures = 0 THEN 3 ELSE alphaTarget
    /\ saintsData' = [saintsData EXCEPT !.nodes[node[i].d] = PinAtStart(@)]
    /\ gestures' = [gestures EXCEPT ![node[i].d] = @ + 1]
    /\ UNCHANGED <<phase, response, network, assigned, node, link, label, tooltip, hover,
                   currentFilter, activeButtons, simulating, tickListener>>

PinAtPointer(d, pt) ==
    [d EXCEPT !.fx = Some(MathMax(d.size, MathMin(width - d.size, pt[1]))),
              !.fy = Some(MathMax(d.size, MathMin(height - d.size, pt[2])))]

\* A pointer that holds node i moves to pt.
dragged(i, pt) ==
    /\ Interactive
    /\ i \in DOMAIN gestures
    /\ gestures[i] > 0
    /\ saintsData' = [saintsData EXCEPT !.nodes[i] = PinAtPointer(@, pt)]
    /\ UNCHANGED <<phase, response, network, assigned, node, link, label, tooltip, hover,
                   currentFilter, activeButtons, gestures, alphaTarget, simulating,
                   tickListener>>

Unpin(d) == [d EXCEPT !.fx = Null, !.fy = Null]

\* A pointer that holds node i goes up; event.active does not count the ended gesture.
dragended(i) ==
    /\ Interactive
    /\ i \in DOMAIN gestures
    /\ gestures[i] > 0
    /\ alphaTarget' = IF ActiveGestures - 1 = 0 THEN 0 ELSE alphaTarget
    /\ saintsData' = [saintsData EXCEPT !.nodes[i] = Unpin(@)]
    /\ gestures' = [gestures EXCEPT ![i] = @ - 1]
    /\ UNCHANGED <<phase, response, network, assigned, node, link, label, tooltip, hover,
                   currentFilter, activeButtons, simulating, tickListener>>

\* ---------------------------------------------------------------- hover

Grown(size) == (size * 13) \div 10

handleMouseOver(k) ==
    /\ Interactive
    /\ hover = <<>>
    /\ k \in DOMAIN node
    /\ LET d == saintsData.nodes[node[k].d] IN
       /\ node' = [node EXCEPT ![k].r = Grown(d.size)]
       /\ tooltip' = [opacity |-> "1", html |-> <<d.name>>]
    /\ hover' = <<"node", k>>
    /\ UNCHANGED <<phase, response, saintsData, network, assigned, link, label, currentFilter,
                   activeButtons, gestures, alphaTarget, simulating, tickListener>>

handleMouseOut(k) ==
    /\ Interactive
    /\ hover = <<"node", k>>
    /\ node' = [node EXCEPT ![k].r = saintsData.nodes[node[k].d].size]
    /\ tooltip' = [tooltip EXCEPT !.opacity = "0"]
    /\ hover' = <<>>
    /\ UNCHANGED <<phase, response, saintsData, network, assigned, link, label, currentFilter,
                   activeButtons, gestures, alphaTarget, simulating, tickListener>>

relationshipDescriptions(type) ==
    CASE type = "mentor" -> "Mentor-Student relationship"
      [] type = "contemporary" -> "Lived at the same time"
      [] type = "influence" -> "Theological/spiritual influence"
      [] type = "order" -> "Same religious order"
      [] type = "friend" -> "Personal friendship"
      [] type = "colleague" -> "Worked together"
      [] OTHER -> "Connected"

\* The entries of the details table between the saints of the documents above.
details(source, target) ==
    CASE source = "peter" /\ target = "paul" ->
            "Both apostles who worked together in the early Church"
      [] source = "paul" /\ target = "augustine" ->
            "Augustine was deeply influenced by Paul's letters"
      [] OTHER -> ""

getRelationshipDetail(source, target) ==
    IF details(source.id, target.id) # "" THEN details(source.id, target.id)
    ELSE IF details(target.id, source.id) # "" THEN details(target.id, source.id)
    ELSE "These saints shared important connections in Church history"

handleLinkMouseOver(j) ==
    /\ Interactive
    /\ hover = <<>>
    /\ j \in DOMAIN link
    /\ LET d == saintsData.links[link[j].d]
           source == saintsData.nodes[d.source]
           target == saintsData.nodes[d.target]
       IN
       /\ link' = [link EXCEPT
                     ![j].strokeWidth = IF d.type = "mentor" THEN 5
                                        ELSE IF d.type = "order" THEN 4 ELSE 3,
                     ![j].stroke = "#8B4513"]
       /\ tooltip' = [opacity |-> "1",
                      html |-> <<source.name, target.name, relationshipDescriptions(d.type),
                                 getRelationshipDetail(source, target)>>]
    /\ hover' = <<"link", j>>
    /\ UNCHANGED <<phase, response, saintsData, network, assigned, node, label, currentFilter,
                   activeButtons, gestures, alphaTarget, simulating, tickListener>>

handleLinkMouseOut(j) ==
    /\ Interactive
    /\ hover = <<"link", j>>
    /\ link' = [link EXCEPT
                  ![j].strokeWidth = LinkStrokeWidth(saintsData.links[link[j].d].type),
                  ![j].stroke = "rgba(139, 69, 19, 0.4)"]
    /\ tooltip' = [tooltip EXCEPT !.opacity = "0"]
    /\ hover' = <<>>
    /\ UNCHANGED <<phase, response, saintsData, network, assigned, node, label, currentFilter,
                   activeButtons, gestures, alphaTarget, simulating, tickListener>>

\* ---------------------------------------------------------------- filters

\* What the filter functions read and write.
View == [currentFilter |-> currentFilter, activeButtons |-> activeButtons,
         node |-> node, label |-> label, link |-> link]

updateButtons(filter) == IF filter = "all" THEN {"all"} ELSE {filter}

\* selection.style("opacity", value): values[k] is the value for element k.
StyleOpacity(selection, values) ==
    [k \in DOMAIN selection |-> [selection[k] EXCEPT !.opacity = values[k]]]

\* The comparison of NodeOpacity inverted.
NodeOpacityInverted(d, type) == IF d.type # type THEN "1" ELSE "0.2"

NodeOpacity(d, type) == IF d.type = type THEN "1" ELSE "0.2"

\* LinkOpacity asking for both ends to match.
LinkOpacityBoth(source, target, type) ==
    IF source.type = type /\ target.type = type THEN "0.7" ELSE "0.1"

LinkOpacity(source, target, type) ==
    IF source.type = type \/ target.type = type THEN "0.7" ELSE "0.1"

\* The statements of a filter function in order; a statement on a global that
\* is still undefined throws, and the rest of the function does not run.
RunStyles(v, nodeValues, labelValues, linkValues) ==
    IF "node" \notin assigned THEN v
    ELSE LET v1 == [v EXCEPT !.node = StyleOpacity(v.node, nodeValues)] IN
         IF "label" \notin assigned THEN v1
         ELSE LET v2 == [v1 EXCEPT !.label = StyleOpacity(v1.label, labelValues)] IN
              IF "link" \notin assigned THEN v2
              ELSE [v2 EXCEPT !.link = StyleOpacity(v2.link, linkValues)]

\* filterAll restoring the lines to 0.6 instead of 0.7.
filterAllOnFaint(v) ==
    RunStyles([v EXCEPT !.currentFilter = "all", !.activeButtons = updateButtons("all")],
              [k \in DOMAIN v.node |-> "1"],
              [k \in DOMAIN v.label |-> "1"],
              [j \in DOMAIN v.link |-> "0.6"])

filterAllOn(v) ==
    RunStyles([v EXCEPT !.currentFilter = "all", !.activeButtons = updateButtons("all")],
              [k \in DOMAIN v.node |-> "1"],
              [k \in DOMAIN v.label |-> "1"],
              [j \in DOMAIN v.link |-> "0.7"])

filterByTypeOn(v, type) ==
    RunStyles([v EXCEPT !.currentFilter = type, !.activeButtons = updateButtons(type)],
              [k \in DOMAIN v.node |-> NodeOpacity(saintsData.nodes[v.node[k].d], type)],
              [k \in DOMAIN v.label |-> NodeOpacity(saintsData.nodes[v.label[k].d], type)],
              [j \in DOMAIN v.link |->
                  LinkOpacity(saintsData.nodes[saintsData.links[v.link[j].d].source],
                              saintsData.nodes[saintsData.links[v.link[j].d].target], type)])

SetView(v) ==
    \E w \in {v} :
       /\ currentFilter' = w.currentFilter
       /\ activeButtons' = w.activeButtons
       /\ node' = w.node
       /\ label' = w.label
       /\ link' = w.link

filterAll ==
    /\ SetView(filterAllOn(View))
    /\ UNCHANGED <<phase, response, saintsData, network, assigned, tooltip, hover, gestures,
                   alphaTarget, simulating, tickListener>>

filterByType(type) ==
    /\ SetView(filterByTypeOn(View, type))
    /\ UNCHANGED <<phase, response, saintsData, network, assigned, tooltip, hover, gestures,
                   alphaTarget, simulating, tickListener>>

\* ---------------------------------------------------------------- properties

\* The nodes once the simulation has given them positions.
Nodes == IF simulating THEN saintsData.nodes ELSE <<>>

\* The elements of a selection that are in the document: the svg's children
\* are in it for as long as the svg is a child of the container.
InDocument(selection) ==
    IF \E c \in DOMAIN network : network[c] = "svg" THEN selection ELSE <<>>

InViewport(size, px, py) ==
    /\ size <= px /\ px <= width - size
    /\ size <= py /\ py <= height - size

\* C1: whenever updatePositions has copied a node's x, y onto its circle and
\* its label, the rendered position lies in the viewport shrunk by the node's
\* radius, whatever ticks and drag events came before.
C1_RenderedInViewport ==
    /\ \A k \in DOMAIN node :
          node[k].cx # Null =>
             InViewport(Nodes[node[k].d].size, node[k].cx[1], node[k].cy[1])
    /\ \A k \in DOMAIN label :
          label[k].x # Null =>
             InViewport(Nodes[label[k].d].size, label[k].x[1], label[k].y[1])

\* A dragged node whose pin was taken outside the viewport is rendered on the
\* viewport's edge.
C1_Witness ==
    \E k \in DOMAIN node :
       /\ node[k].cx # Null
       /\ Nodes[node[k].d].fx # Null
       /\ Nodes[node[k].d].fx[1] < Nodes[node[k].d].size
       /\ node[k].cx[1] = Nodes[node[k].d].size
       /\ gestures[node[k].d] > 0

\* C2: in every state of the loaded page, the state filterByType(t) leaves has
\* a circle and a label at opacity 1 exactly when their node's type is t, and
\* at 0.2 otherwise.
C2_FilterByTypeNodes ==
    phase = "rendered" =>
       \A t \in FilterArgs :
          \A after \in {filterByTypeOn(View, t)} :
             /\ \A k \in DOMAIN after.node :
                   /\ after.node[k].opacity = "1" <=> Nodes[after.node[k].d].type = t
                   /\ after.node[k].opacity # "1" => after.node[k].opacity = "0.2"
             /\ \A k \in DOMAIN after.label :
                   /\ after.label[k].opacity = "1" <=> Nodes[after.label[k].d].type = t
                   /\ after.label[k].opacity # "1" => after.label[k].opacity = "0.2"

C2_Witness ==
    /\ phase = "rendered"
    /\ currentFilter = "apostle"
    /\ \E k \in DOMAIN node : node[k].opacity = "1" /\ label[k].opacity = "1"
    /\ \E k \in DOMAIN node : node[k].opacity = "0.2" /\ label[k].opacity = "0.2"

\* init() has returned.
InitFinished == phase \in {"rendered", "error"}

\* The load failed: the fetch rejected, the body was not JSON, or the
\* document makes init() or setupVisualization throw.
LoadFailed ==
    \/ response.status \in {"rejected", "unparsable"}
    \/ response.status = "parsed" /\ response.body \in MalformedDocs

\* The container holds the error paragraph and nothing else.
ErrorShown ==
    /\ network = <<ErrorMessage>>
    /\ InDocument(node) = <<>> /\ InDocument(link) = <<>> /\ InDocument(label) = <<>>

\* C3: when init() finishes after a failed load the container holds exactly
\* the error message and no visual element, and from then on that stays so:
\* the load is not attempted again.
C3_FailedLoadShowsError ==
    [][/\ (InitFinished' /\ LoadFailed') => (phase' = "error" /\ ErrorShown')
       /\ (InitFinished /\ LoadFailed) =>
             (phase' = "error" /\ ErrorShown' /\ response' = response)]_vars

\* setupVisualization threw after the circles were joined, and a filter button
\* was clicked afterwards.
C3_Witness ==
    /\ phase = "error"
    /\ response.status = "parsed"
    /\ "node" \in assigned
    /\ Len(node) > 0
    /\ currentFilter # "all"
    /\ network = <<ErrorMessage>>

\* C4: after a successful load of a document with N nodes and L links the
\* page holds one circle and one label per node and one line per link, and
\* keeps them under ticks, hovers, drags and filter calls.
C4_ElementCounts ==
    phase = "rendered" =>
       LET N == Len(response.body.nodes)
           L == Len(response.body.links)
       IN
       /\ Len(InDocument(node)) = N /\ {node[k].d : k \in DOMAIN node} = 1..N
       /\ Len(InDocument(label)) = N /\ {label[k].d : k \in DOMAIN label} = 1..N
       /\ Len(InDocument(link)) = L /\ {link[j].d : j \in DOMAIN link} = 1..L

C4_Witness ==
    /\ phase = "rendered"
    /\ Len(InDocument(node)) = 2 /\ Len(InDocument(label)) = 2 /\ Len(InDocument(link)) = 1
    /\ currentFilter # "all"
    /\ hover # <<>>
    /\ \E i \in DOMAIN gestures : gestures[i] > 0
    /\ \A k \in DOMAIN node : node[k].cx # Null

\* The position fields of every node that has them.
Positions ==
    [i \in DOMAIN Nodes |-> <<Nodes[i].x, Nodes[i].y, Nodes[i].fx, Nodes[i].fy>>]

\* C5: the filter functions and the hover handlers leave x, y, fx, fy of every
\* node as they were, and updatePositions, on whatever the simulation's step
\* hands it, leaves the pins alone and changes a coordinate only if it was
\* outside [size, width - size], [size, height - size].
C5_PositionFrame ==
    /\ [][Positions' # Positions =>
             ~( \/ filterAll
                \/ \E t \in FilterArgs : filterByType(t)
                \/ \E k \in DOMAIN node : handleMouseOver(k) \/ handleMouseOut(k)
                \/ \E j \in DOMAIN link : handleLinkMouseOver(j) \/ handleLinkMouseOut(j) )]_vars
    /\ [](\A pts \in [DOMAIN Nodes -> SimPoints] :
             \A before \in {SimMove(Nodes, pts)} :
             \A after \in {ClampNodes(before)} :
             \A i \in DOMAIN Nodes :
                /\ after[i].fx = before[i].fx /\ after[i].fy = before[i].fy
                /\ after[i].x # before[i].x =>
                      (before[i].x < before[i].size \/ before[i].x > width - before[i].size)
                /\ after[i].y # before[i].y =>
                      (before[i].y < before[i].size \/ before[i].y > height - before[i].size))

\* A pinned node sits on the viewport's edge, rendered there by
\* updatePositions, while a filter is selected and an element is hovered.
C5_Witness ==
    /\ phase = "rendered"
    /\ currentFilter # "all"
    /\ hover # <<>>
    /\ \E k \in DOMAIN node :
          /\ node[k].cx = Some(Nodes[node[k].d].size)
          /\ Nodes[node[k].d].x = Nodes[node[k].d].size
          /\ Nodes[node[k].d].fx = Some(Nodes[node[k].d].size)

\* C6: a node is pinned exactly while it is the subject of a drag gesture: fx
\* and fy are set from dragstarted to dragended, and a node no gesture holds
\* has no pin.
C6_PinnedIffDragged ==
    \A i \in DOMAIN gestures :
       gestures[i] > 0 <=> (Nodes[i].fx # Null /\ Nodes[i].fy # Null)

\* C7: whenever a node's pin is set it lies in the viewport shrunk by the
\* node's radius, the pin dragstarted takes from x, y included.
C7_PinInViewport ==
    \A i \in DOMAIN Nodes :
       Nodes[i].fx # Null => InViewport(Nodes[i].size, Nodes[i].fx[1], Nodes[i].fy[1])

\* C8: in every state of the loaded page, the state filterByType(t) leaves has
\* a line at opacity 0.7 exactly when its source's or its target's type is t,
\* and at 0.1 otherwise.
C8_FilterByTypeLinks ==
    phase = "rendered" =>
       \A t \in FilterArgs :
          \A after \in {filterByTypeOn(View, t)} :
             \A j \in DOMAIN after.link :
                LET d == saintsData.links[after.link[j].d] IN
                /\ after.link[j].opacity = "0.7" <=>
                      (Nodes[d.source].type = t \/ Nodes[d.target].type = t)
                /\ after.link[j].opacity # "0.7" => after.link[j].opacity = "0.1"

C8_Witness ==
    /\ phase = "rendered"
    /\ currentFilter = "apostle"
    /\ \E j \in DOMAIN link :
          /\ link[j].opacity = "0.7"
          /\ Nodes[saintsData.links[link[j].d].target].type # "apostle"

\* Everything is shown: the state filterAll leaves on loaded data.
AllShown(v) ==
    /\ v.currentFilter = "all"
    /\ \A k \in DOMAIN v.node : v.node[k].opacity = "1"
    /\ \A k \in DOMAIN v.label : v.label[k].opacity = "1"
    /\ \A j \in DOMAIN v.link : v.link[j].opacity = "0.7"

\* C9: on loaded data filterAll shows everything and selects 'all' whatever
\* filter calls came before, and filterAll and filterByType(t) called twice
\* in a row leave the state the first call left.
C9_LastFilterDecides ==
    phase = "rendered" =>
       /\ AllShown(filterAllOn(View))
       /\ filterAllOn(filterAllOn(View)) = filterAllOn(View)
       /\ \A t \in FilterArgs :
             filterByTypeOn(filterByTypeOn(View, t), t) = filterByTypeOn(View, t)

\* filterAll has run after a filterByType: the lines carry 0.7, which only a
\* filter call sets, and 'all' is the active button.
C9_Witness ==
    /\ phase = "rendered"
    /\ AllShown(View)
    /\ Len(link) > 0
    /\ activeButtons = {"all"}

\* The opacity an element is shown with: the inline style, or 1 when unset.
Shown(opacity) == IF opacity = "" THEN "1" ELSE opacity

\* C10: once the graph is rendered the selected filter and the display agree,
\* whenever the filter buttons were clicked: under 'all' every circle is at
\* opacity 1, under t exactly the circles of type t are.
C10_FilterMatchesDisplay ==
    phase = "rendered" =>
       \A k \in DOMAIN node :
          IF currentFilter = "all"
          THEN Shown(node[k].opacity) = "1"
          ELSE Shown(node[k].opacity) = "1" <=> Nodes[node[k].d].type = currentFilter

\* ---------------------------------------------------------------- specification

Next ==
    \/ InitStart
    \/ FetchResolved
    \/ FetchRejected
    \/ ParseRejected
    \/ \E doc \in Docs : Parsed(doc)
    \/ Tick
    \/ \E i \in DOMAIN node : dragstarted(i)
    \/ \E i \in DOMAIN gestures, pt \in DragPoints : dragged(i, pt)
    \/ \E i \in DOMAIN gestures : dragended(i)
    \/ \E k \in DOMAIN node : handleMouseOver(k)
    \/ \E k \in DOMAIN node : handleMouseOut(k)
    \/ \E j \in DOMAIN link : handleLinkMouseOver(j)
    \/ \E j \in DOMAIN link : handleLinkMouseOut(j)
    \/ filterAll
    \/ \E type \in FilterArgs : filterByType(type)

Spec == Init /\ [][Next]_vars

====
